---- MODULE Spec2Model ----
(***************************************************************************)
(* Model of src/main.cpp: one producer thread pushing images into a        *)
(* SafeQueue with drop-oldest overflow, NUM_CONSUMERS consumer threads     *)
(* popping from it through a condition variable, and main() acting as the  *)
(* coordinator (sleep, running.store(false), notify_all, joins, summary).  *)
(* A payload is identified by the ordinal of the push that inserted it.    *)
(***************************************************************************)
EXTENDS Integers, Sequences, FiniteSets, TLC

\* ----- bounds of the model ------------------------------------------------
\* capacity of the queue (main.cpp:30 sets 200; scaled down for checking)
MAX_QUEUE_SIZE == 2
\* number of consumer threads (main.cpp:28/202, 1..7)
NUM_CONSUMERS == 2
\* largest encoded size of one image, in bytes
MaxBufSize == 1

\* cap on the number of images the producer generates in one run: one more
\* than the queue can hold, so that a run can overflow the queue
MaxProduced == MAX_QUEUE_SIZE + 1

\* largest duration (seconds) and rate (images per second) of a run
MaxDur == 2
MaxRate == 12

Workers == 1 .. NUM_CONSUMERS
NoOwner == 0
NoImg == 0
NoExit == -1
\* main.cpp:195, the largest number of consumer threads main() accepts
MaxConsumers == 7

\* the arguments of the run whose threads Spec follows
RunConfig == [dur |-> MaxDur, fps |-> MaxRate, consumers |-> NUM_CONSUMERS]

VARIABLES
    queue,              \* SafeQueue::queue (std::deque), front = Head
    mtx,                \* SafeQueue::mtx: NoOwner or the worker holding it
    waiting,            \* threads blocked on SafeQueue::cv
    running,            \* std::atomic<bool> running
    imagesGenerated,    \* std::atomic<int>
    imagesSaved,        \* std::atomic<int>
    totalBytesWritten,  \* std::atomic<size_t>
    pcProd,             \* position of the producer thread
    pcCons,             \* position of each consumer thread
    img,                \* the image each consumer holds (NoImg if none)
    index,              \* the index each consumer got from imagesSaved
    pcMain,             \* position of main()
    joined,             \* number of consumer threads main() has joined
    summary,            \* the values main() prints in the summary
    cfg,                \* dur, fps, consumers: the parsed arguments of main()
    exitCode,           \* the value main() returned (NoExit while it runs)
    clock,              \* milliseconds of the run elapsed at the producer
    \* history variables (not program state)
    nPushed,            \* number of completed push() calls
    nEvicted,           \* number of elements dropped by push()
    nPopped,            \* number of pop() calls that returned true
    nPopFail,           \* number of pop() calls that returned false
    sinkOk,             \* number of images written to their file
    sinkFail,           \* number of images whose encode/open failed
    closeDepth,         \* queue length when running became false (-1 before)
    closePushed,        \* nPushed when running became false (-1 before)
    drainPops,          \* successful pops after close, before the first false
    popSeq,             \* the images returned by pop, in the order of the pops
    idxSeq,             \* the indices handed out at line 154, in order
    waitHist            \* per consumer, for its current or last pop: "none" if
                        \* it did not have to wait, "waiting" if it found it
                        \* had to wait and no push has happened since,
                        \* "pushed" if a push has happened since

progVars == <<queue, mtx, waiting, running, imagesGenerated, imagesSaved,
              totalBytesWritten, pcProd, pcCons, img, index, pcMain, joined,
              summary>>
histVars == <<nPushed, nEvicted, nPopped, nPopFail, sinkOk, sinkFail,
              closeDepth, closePushed, drainPops, popSeq, idxSeq,
              waitHist>>
\* the arguments, the exit code and the clock do not change while the
\* threads run
cfgVars == <<cfg, clock>>
vars == <<progVars, cfgVars, exitCode, histVars>>

NoSummary == [generated |-> -1, saved |-> -1, bytes |-> -1, depth |-> -1]

\* ----- SafeQueue ----------------------------------------------------------

\* push without the size check: the queue grows without limit
PushNoEvict(q, v) == Append(q, v)

\* push that drops the back (pop_back) instead of the front when full
PushDropNewest(q, v) ==
    IF Len(q) >= MAX_QUEUE_SIZE
    THEN Append(SubSeq(q, 1, Len(q) - 1), v) ELSE Append(q, v)

\* push, lines 52-55: drop the front when full, then append
PushQueue(q, v) ==
    IF Len(q) >= MAX_QUEUE_SIZE THEN Append(Tail(q), v) ELSE Append(q, v)

\* the predicate without the flag: only a push lets a waiting pop go on
WaitPredNoFlag(q, r) == q # <<>>

\* the predicate with the flag inverted (running instead of !running)
WaitPredInverted(q, r) == q # <<>> \/ r

\* the predicate of cv.wait in pop, line 67
WaitPred(q, r) == q # <<>> \/ ~r

\* push without the call of notify_one
NotifyNone(ws) == {{}}

\* cv.notify_one: wake one waiter, if there is one
NotifyOne(ws) ==
    IF ws = {} THEN {{}} ELSE {{w} : w \in ws}

Init ==
    /\ queue = <<>>
    /\ mtx = NoOwner
    /\ waiting = {}
    /\ running = TRUE
    /\ imagesGenerated = 0
    /\ imagesSaved = 0
    /\ totalBytesWritten = 0
    /\ pcProd = "loop"
    /\ pcCons = [w \in Workers |-> "pop"]
    /\ img = [w \in Workers |-> NoImg]
    /\ index = [w \in Workers |-> -1]
    /\ pcMain = "sleep"
    /\ joined = 0
    /\ summary = NoSummary
    /\ cfg = RunConfig
    /\ exitCode = NoExit
    /\ clock = 0
    /\ popSeq = <<>>
    /\ idxSeq = <<>>
    /\ nPushed = 0
    /\ nEvicted = 0
    /\ nPopped = 0
    /\ nPopFail = 0
    /\ sinkOk = 0
    /\ sinkFail = 0
    /\ closeDepth = -1
    /\ closePushed = -1
    /\ drainPops = 0
    /\ waitHist = [w \in Workers |-> "none"]

\* ----- producer thread (imageProducer) -------------------------------------

\* line 119: the loop condition read true; the thread goes on to generate
ProducerLoop ==
    /\ pcProd = "loop"
    /\ running
    /\ nPushed < MaxProduced
    /\ pcProd' = "push"
    /\ UNCHANGED <<cfgVars, exitCode,
                   queue, mtx, waiting, running, imagesGenerated, imagesSaved,
                   totalBytesWritten, pcCons, img, index, pcMain, joined,
                   summary, histVars>>

\* line 119: the loop condition read false; the thread leaves the loop
ProducerExit ==
    /\ pcProd = "loop"
    /\ ~running
    /\ pcProd' = "notify"
    /\ UNCHANGED <<cfgVars, exitCode,
                   queue, mtx, waiting, running, imagesGenerated, imagesSaved,
                   totalBytesWritten, pcCons, img, index, pcMain, joined,
                   summary, histVars>>

\* lines 121-123 and 50-57: generate an image and push it under the mutex
ProducerPush ==
    /\ pcProd = "push"
    /\ mtx = NoOwner
    /\ queue' = PushQueue(queue, nPushed + 1)
    /\ nPushed' = nPushed + 1
    /\ nEvicted' = nEvicted + Len(queue) + 1 - Len(queue')
    /\ waitHist' = [w \in Workers |->
                       IF pcCons[w] \in {"prewait", "waiting", "woken"}
                       THEN "pushed" ELSE waitHist[w]]
    /\ \E ws \in NotifyOne(waiting) :
          /\ waiting' = waiting \ ws
          /\ pcCons' = [w \in Workers |-> IF w \in ws THEN "woken" ELSE pcCons[w]]
    /\ pcProd' = "count"
    /\ UNCHANGED <<cfgVars, exitCode,
                   mtx, running, imagesGenerated, imagesSaved,
                   totalBytesWritten, img, index, pcMain, joined, summary,
                   nPopped, nPopFail, sinkOk, sinkFail, closeDepth, closePushed,
                   drainPops, popSeq, idxSeq>>

\* the image is counted only while running is still true
ProducerCountIfRunning ==
    /\ pcProd = "count"
    /\ imagesGenerated' = IF running THEN imagesGenerated + 1
                                      ELSE imagesGenerated
    /\ pcProd' = "loop"
    /\ UNCHANGED <<cfgVars, exitCode,
                   queue, mtx, waiting, running, imagesSaved,
                   totalBytesWritten, pcCons, img, index, pcMain, joined,
                   summary, histVars>>

\* lines 124-134: count the image, then sleep until the next tick
ProducerCount ==
    /\ pcProd = "count"
    /\ imagesGenerated' = imagesGenerated + 1
    /\ pcProd' = "loop"
    /\ UNCHANGED <<cfgVars, exitCode,
                   queue, mtx, waiting, running, imagesSaved,
                   totalBytesWritten, pcCons, img, index, pcMain, joined,
                   summary, histVars>>

\* a close that flips the flag (running = !running) before the broadcast
ProducerNotifyToggle ==
    /\ pcProd = "notify"
    /\ running' = ~running
    /\ waiting' = {}
    /\ pcCons' = [w \in Workers |-> IF w \in waiting THEN "woken" ELSE pcCons[w]]
    /\ pcProd' = "done"
    /\ UNCHANGED <<cfgVars, exitCode,
                   queue, mtx, imagesGenerated, imagesSaved,
                   totalBytesWritten, img, index, pcMain, joined, summary,
                   histVars>>

\* line 137: notify_all after the loop, then the thread ends
ProducerNotify ==
    /\ pcProd = "notify"
    /\ waiting' = {}
    /\ pcCons' = [w \in Workers |-> IF w \in waiting THEN "woken" ELSE pcCons[w]]
    /\ pcProd' = "done"
    /\ UNCHANGED <<cfgVars, exitCode,
                   queue, mtx, running, imagesGenerated, imagesSaved,
                   totalBytesWritten, img, index, pcMain, joined, summary,
                   histVars>>

\* ----- consumer threads (imageConsumer) -----------------------------------

\* wait(lock) without the loop: any wake-up lets pop go on
RecheckNever(q, r) == TRUE

\* cv.wait(lock, pred) is `while (!pred()) wait(lock)`: the predicate is
\* evaluated again after every wake-up, line 67
RecheckPred(q, r) == WaitPred(q, r)

\* pop, line 69: the call returns true exactly when the queue is not empty
PopOk(q) == q # <<>>

\* pop that takes queue.back() instead of queue.front()
QueueBack(q) == q[Len(q)]

\* pop, line 70: the element pop returns
QueueFront(q) == Head(q)

\* lines 150 and 66-72: the thread takes the mutex (on entry to pop, or when
\* it comes back from a wake-up) and evaluates the predicate.  If it holds,
\* the rest of pop runs under the same lock; otherwise the thread still
\* owns the mutex and is about to call wait(lock).
ConsumerPop(w) ==
    /\ pcCons[w] \in {"pop", "woken"}
    /\ mtx = NoOwner
    /\ LET pred == IF pcCons[w] = "pop" THEN WaitPred(queue, running)
                                        ELSE RecheckPred(queue, running)
       IN  IF pred
           THEN /\ IF PopOk(queue)
                   THEN /\ img' = [img EXCEPT ![w] = QueueFront(queue)]
                        /\ popSeq' = Append(popSeq, QueueFront(queue))
                        /\ queue' = Tail(queue)
                        /\ pcCons' = [pcCons EXCEPT ![w] = "index"]
                        /\ nPopped' = nPopped + 1
                        /\ drainPops' = IF ~running /\ nPopFail = 0
                                        THEN drainPops + 1 ELSE drainPops
                        /\ UNCHANGED nPopFail
                   ELSE /\ pcCons' = [pcCons EXCEPT ![w] = "done"]
                        /\ nPopFail' = nPopFail + 1
                        /\ UNCHANGED <<img, queue, nPopped, drainPops, popSeq>>
                /\ waitHist' = IF pcCons[w] = "pop"
                               THEN [waitHist EXCEPT ![w] = "none"]
                               ELSE waitHist
                /\ UNCHANGED mtx
           ELSE /\ mtx' = w
                /\ pcCons' = [pcCons EXCEPT ![w] = "prewait"]
                /\ waitHist' = IF pcCons[w] = "pop"
                               THEN [waitHist EXCEPT ![w] = "waiting"]
                               ELSE waitHist
                /\ UNCHANGED <<img, queue, nPopped, nPopFail, drainPops,
                               popSeq>>
    /\ UNCHANGED <<cfgVars, exitCode,
                   waiting, running, imagesGenerated, imagesSaved,
                   totalBytesWritten, pcProd, index, pcMain, joined, summary,
                   nPushed, nEvicted, sinkOk, sinkFail, closeDepth, closePushed,
                   idxSeq>>

\* line 67, wait(lock): release the mutex and block on the condition variable
ConsumerWait(w) ==
    /\ pcCons[w] = "prewait"
    /\ mtx = w
    /\ mtx' = NoOwner
    /\ waiting' = waiting \cup {w}
    /\ pcCons' = [pcCons EXCEPT ![w] = "waiting"]
    /\ UNCHANGED <<cfgVars, exitCode,
                   queue, running, imagesGenerated, imagesSaved,
                   totalBytesWritten, pcProd, img, index, pcMain, joined,
                   summary, histVars>>

\* std::condition_variable::wait may return without a notification
SpuriousWake(w) ==
    /\ w \in waiting
    /\ waiting' = waiting \ {w}
    /\ pcCons' = [pcCons EXCEPT ![w] = "woken"]
    /\ UNCHANGED <<cfgVars, exitCode,
                   queue, mtx, running, imagesGenerated, imagesSaved,
                   totalBytesWritten, pcProd, img, index, pcMain, joined,
                   summary, histVars>>

\* the counter decremented instead of incremented (fetch_sub)
SavedFetchSub(s) == s - 1

\* the counter read but not incremented (load instead of fetch_add)
SavedNoIncrement(s) == s

\* line 154: imagesSaved.fetch_add(1), the old value is the file index
SavedAfterPop(s) == s + 1

ConsumerIndex(w) ==
    /\ pcCons[w] = "index"
    /\ index' = [index EXCEPT ![w] = imagesSaved]
    /\ idxSeq' = Append(idxSeq, imagesSaved)
    /\ waitHist' = [waitHist EXCEPT ![w] = "none"]
    /\ imagesSaved' = SavedAfterPop(imagesSaved)
    /\ pcCons' = [pcCons EXCEPT ![w] = "sink"]
    /\ UNCHANGED <<cfgVars, exitCode,
                   queue, mtx, waiting, running, imagesGenerated,
                   totalBytesWritten, pcProd, img, pcMain, joined, summary,
                   nPushed, nEvicted, nPopped, nPopFail, sinkOk, sinkFail,
                   closeDepth, closePushed, drainPops, popSeq>>

\* lines 157-164: encode and write; ok is whether imencode and the opening
\* of the file both succeeded, n is buffer.size()
ConsumerSink(w) ==
    /\ pcCons[w] = "sink"
    /\ \E ok \in BOOLEAN, n \in 1 .. MaxBufSize :
          IF ok
          THEN /\ totalBytesWritten' = totalBytesWritten + n
               /\ sinkOk' = sinkOk + 1
               /\ UNCHANGED sinkFail
          ELSE /\ sinkFail' = sinkFail + 1
               /\ UNCHANGED <<totalBytesWritten, sinkOk>>
    /\ img' = [img EXCEPT ![w] = NoImg]
    /\ index' = [index EXCEPT ![w] = -1]
    /\ pcCons' = [pcCons EXCEPT ![w] = "pop"]
    /\ UNCHANGED <<cfgVars, exitCode,
                   queue, mtx, waiting, running, imagesGenerated, imagesSaved,
                   pcProd, pcMain, joined, summary,
                   nPushed, nEvicted, nPopped, nPopFail, closeDepth,
                   closePushed, drainPops, popSeq, idxSeq, waitHist>>

\* ----- main() ---------------------------------------------------------------

\* lines 223-224: the sleep ends and running.store(false)
MainStop ==
    /\ pcMain = "sleep"
    /\ running' = FALSE
    /\ closeDepth' = Len(queue)
    /\ closePushed' = nPushed
    /\ pcMain' = "notify"
    /\ UNCHANGED <<cfgVars, exitCode,
                   queue, mtx, waiting, imagesGenerated, imagesSaved,
                   totalBytesWritten, pcProd, pcCons, img, index, joined,
                   summary, nPushed, nEvicted, nPopped, nPopFail, sinkOk,
                   sinkFail, drainPops, popSeq, idxSeq, waitHist>>

\* line 225: imageQueue.notify_all()
MainNotify ==
    /\ pcMain = "notify"
    /\ waiting' = {}
    /\ pcCons' = [w \in Workers |-> IF w \in waiting THEN "woken" ELSE pcCons[w]]
    /\ pcMain' = "joinProducer"
    /\ UNCHANGED <<cfgVars, exitCode,
                   queue, mtx, running, imagesGenerated, imagesSaved,
                   totalBytesWritten, pcProd, img, index, joined, summary,
                   histVars>>

\* line 227 left out: main() goes on without waiting for the producer
MainSkipJoinProducer ==
    /\ pcMain = "joinProducer"
    /\ pcMain' = "joinConsumers"
    /\ UNCHANGED <<cfgVars, exitCode,
                   queue, mtx, waiting, running, imagesGenerated, imagesSaved,
                   totalBytesWritten, pcProd, pcCons, img, index, joined,
                   summary, histVars>>

\* line 227: producer.join()
MainJoinProducer ==
    /\ pcMain = "joinProducer"
    /\ pcProd = "done"
    /\ pcMain' = "joinConsumers"
    /\ UNCHANGED <<cfgVars, exitCode,
                   queue, mtx, waiting, running, imagesGenerated, imagesSaved,
                   totalBytesWritten, pcProd, pcCons, img, index, joined,
                   summary, histVars>>

\* line 228 without the wait: the thread is detached instead of joined
MainDetachConsumer ==
    /\ pcMain = "joinConsumers"
    /\ joined < NUM_CONSUMERS
    /\ joined' = joined + 1
    /\ UNCHANGED <<cfgVars, exitCode,
                   queue, mtx, waiting, running, imagesGenerated, imagesSaved,
                   totalBytesWritten, pcProd, pcCons, img, index, pcMain,
                   summary, histVars>>

\* line 228: c.join() for the next consumer thread of the vector
MainJoinConsumer ==
    /\ pcMain = "joinConsumers"
    /\ joined < NUM_CONSUMERS
    /\ pcCons[joined + 1] = "done"
    /\ joined' = joined + 1
    /\ UNCHANGED <<cfgVars, exitCode,
                   queue, mtx, waiting, running, imagesGenerated, imagesSaved,
                   totalBytesWritten, pcProd, pcCons, img, index, pcMain,
                   summary, histVars>>

\* lines 228-235: the loop of joins ends and imagesGenerated.load() is
\* printed
MainReadGenerated ==
    /\ pcMain = "joinConsumers"
    /\ joined = NUM_CONSUMERS
    /\ summary' = [summary EXCEPT !.generated = imagesGenerated]
    /\ pcMain' = "readSaved"
    /\ UNCHANGED <<cfgVars, exitCode,
                   queue, mtx, waiting, running, imagesGenerated, imagesSaved,
                   totalBytesWritten, pcProd, pcCons, img, index, joined,
                   histVars>>

\* line 236: imagesSaved.load()
MainReadSaved ==
    /\ pcMain = "readSaved"
    /\ summary' = [summary EXCEPT !.saved = imagesSaved]
    /\ pcMain' = "readBytes"
    /\ UNCHANGED <<cfgVars, exitCode,
                   queue, mtx, waiting, running, imagesGenerated, imagesSaved,
                   totalBytesWritten, pcProd, pcCons, img, index, joined,
                   histVars>>

\* line 237: totalBytesWritten.load()
MainReadBytes ==
    /\ pcMain = "readBytes"
    /\ summary' = [summary EXCEPT !.bytes = totalBytesWritten]
    /\ pcMain' = "readDepth"
    /\ UNCHANGED <<cfgVars, exitCode,
                   queue, mtx, waiting, running, imagesGenerated, imagesSaved,
                   totalBytesWritten, pcProd, pcCons, img, index, joined,
                   histVars>>

\* lines 239-242: imageQueue.size() under the mutex, then return 0
MainSummary ==
    /\ pcMain = "readDepth"
    /\ mtx = NoOwner
    /\ summary' = [summary EXCEPT !.depth = Len(queue)]
    /\ exitCode' = 0
    /\ pcMain' = "done"
    /\ UNCHANGED <<cfgVars,
                   queue, mtx, waiting, running, imagesGenerated, imagesSaved,
                   totalBytesWritten, pcProd, pcCons, img, index, joined,
                   histVars>>

\* ----- specifications -------------------------------------------------------

Producer == ProducerLoop \/ ProducerExit \/ ProducerPush \/ ProducerCount
            \/ ProducerNotify

Consumer(w) == ConsumerPop(w) \/ ConsumerWait(w) \/ ConsumerIndex(w)
               \/ ConsumerSink(w)

Main == MainStop \/ MainNotify \/ MainJoinProducer \/ MainJoinConsumer
        \/ MainReadGenerated \/ MainReadSaved \/ MainReadBytes \/ MainSummary

Next ==
    \/ Producer
    \/ \E w \in Workers : Consumer(w)
    \/ \E w \in Workers : SpuriousWake(w)
    \/ Main

Spec == Init /\ [][Next]_vars

\* Every thread that can take a step eventually takes one.  A spurious
\* wake-up is allowed but never guaranteed, so it gets no fairness.
FairSpec ==
    /\ Spec
    /\ WF_vars(Producer)
    /\ \A w \in Workers : WF_vars(Consumer(w))
    /\ WF_vars(Main)

\* ----- main() before the threads start ----------------------------------------

\* line 190 with the comparison of the consumer count left out
ArgsPositiveNoCount(d, f, c) == ~(d <= 0 \/ f <= 0)

\* line 190: the three parsed values must be positive
ArgsPositive(d, f, c) == ~(d <= 0 \/ f <= 0 \/ c <= 0)

\* line 195: at most MaxConsumers consumer threads
WithinMax(c) == ~(c > MaxConsumers)

\* the values std::atoi can give main() at lines 186-188, within the bounds
ArgConfigs ==
    [dur : -1 .. MaxDur, fps : -1 .. MaxRate, consumers : -1 .. MaxConsumers + 1]

\* main() at line 190: the arguments are parsed, nothing else has happened
InitArgs ==
    /\ cfg \in ArgConfigs
    /\ pcMain = "validate"
    /\ exitCode = NoExit
    /\ pcProd = "unstarted"
    /\ pcCons = <<>>
    /\ img = <<>>
    /\ index = <<>>
    /\ waitHist = <<>>
    /\ queue = <<>>
    /\ mtx = NoOwner
    /\ waiting = {}
    /\ running = TRUE
    /\ imagesGenerated = 0
    /\ imagesSaved = 0
    /\ totalBytesWritten = 0
    /\ joined = 0
    /\ summary = NoSummary
    /\ clock = 0
    /\ popSeq = <<>>
    /\ idxSeq = <<>>
    /\ nPushed = 0
    /\ nEvicted = 0
    /\ nPopped = 0
    /\ nPopFail = 0
    /\ sinkOk = 0
    /\ sinkFail = 0
    /\ closeDepth = -1
    /\ closePushed = -1
    /\ drainPops = 0

\* lines 190-193: return 1 when a value is not positive
MainRejectNonPositive ==
    /\ pcMain = "validate"
    /\ ~ArgsPositive(cfg.dur, cfg.fps, cfg.consumers)
    /\ exitCode' = 1
    /\ pcMain' = "rejected"
    /\ UNCHANGED <<cfgVars, queue, mtx, waiting, running, imagesGenerated,
                   imagesSaved, totalBytesWritten, pcProd, pcCons, img, index,
                   joined, summary, histVars>>

\* lines 195-198: return 1 when more than 7 consumers are asked for
MainRejectTooMany ==
    /\ pcMain = "validate"
    /\ ArgsPositive(cfg.dur, cfg.fps, cfg.consumers)
    /\ ~WithinMax(cfg.consumers)
    /\ exitCode' = 1
    /\ pcMain' = "rejected"
    /\ UNCHANGED <<cfgVars, queue, mtx, waiting, running, imagesGenerated,
                   imagesSaved, totalBytesWritten, pcProd, pcCons, img, index,
                   joined, summary, histVars>>

\* lines 200-223: the globals are set, the producer thread and the consumer
\* threads are created, main() goes to sleep
MainStart ==
    /\ pcMain = "validate"
    /\ ArgsPositive(cfg.dur, cfg.fps, cfg.consumers)
    /\ WithinMax(cfg.consumers)
    /\ pcProd' = "loop"
    /\ pcCons' = [w \in 1 .. cfg.consumers |-> "pop"]
    /\ img' = [w \in 1 .. cfg.consumers |-> NoImg]
    /\ index' = [w \in 1 .. cfg.consumers |-> -1]
    /\ waitHist' = [w \in 1 .. cfg.consumers |-> "none"]
    /\ pcMain' = "sleep"
    /\ UNCHANGED <<cfgVars, exitCode, queue, mtx, waiting, running,
                   imagesGenerated, imagesSaved, totalBytesWritten, joined,
                   summary, nPushed, nEvicted, nPopped, nPopFail, sinkOk,
                   sinkFail, closeDepth, closePushed, drainPops, popSeq,
                   idxSeq>>

NextValidate == MainRejectNonPositive \/ MainRejectTooMany \/ MainStart

\* main() from the parsed arguments to the start of the threads
ValidateSpec == InitArgs /\ [][NextValidate]_vars

\* ----- the producer against the clock ----------------------------------------

\* line 115: milliseconds(1000 / TARGET_FPS), an integer division
Interval(f) == 1000 \div f

\* the accepted arguments of the runs RateSpec follows
RateConfigs ==
    [dur : 1 .. MaxDur, fps : 1 .. MaxRate, consumers : {NUM_CONSUMERS}]

\* the state of Init, for every accepted duration and rate
InitRate ==
    /\ cfg \in RateConfigs
    /\ pcMain = "sleep"
    /\ exitCode = NoExit
    /\ pcProd = "loop"
    /\ pcCons = [w \in Workers |-> "pop"]
    /\ img = [w \in Workers |-> NoImg]
    /\ index = [w \in Workers |-> -1]
    /\ waitHist = [w \in Workers |-> "none"]
    /\ queue = <<>>
    /\ mtx = NoOwner
    /\ waiting = {}
    /\ running = TRUE
    /\ imagesGenerated = 0
    /\ imagesSaved = 0
    /\ totalBytesWritten = 0
    /\ joined = 0
    /\ summary = NoSummary
    /\ clock = 0
    /\ popSeq = <<>>
    /\ idxSeq = <<>>
    /\ nPushed = 0
    /\ nEvicted = 0
    /\ nPopped = 0
    /\ nPopFail = 0
    /\ sinkOk = 0
    /\ sinkFail = 0
    /\ closeDepth = -1
    /\ closePushed = -1
    /\ drainPops = 0

\* lines 119-134, one iteration that starts at time clock while main() still
\* sleeps: the image is generated, pushed and counted in less than one
\* interval, the consumers take it at once, and sleep_until returns at
\* start + interval
RateTick ==
    /\ pcProd = "loop"
    /\ clock < cfg.dur * 1000
    /\ imagesGenerated' = imagesGenerated + 1
    /\ clock' = clock + Interval(cfg.fps)
    /\ UNCHANGED <<cfg, exitCode, queue, mtx, waiting, running, imagesSaved,
                   totalBytesWritten, pcProd, pcCons, img, index, pcMain,
                   joined, summary, histVars>>

\* lines 223-224 and 119: the sleep of main() has ended after dur seconds,
\* running is false and the producer leaves its loop
RateStop ==
    /\ pcProd = "loop"
    /\ clock >= cfg.dur * 1000
    /\ running' = FALSE
    /\ pcMain' = "notify"
    /\ pcProd' = "notify"
    /\ UNCHANGED <<cfgVars, exitCode, queue, mtx, waiting, imagesGenerated,
                   imagesSaved, totalBytesWritten, pcCons, img, index, joined,
                   summary, histVars>>

NextRate == RateTick \/ RateStop

\* the paced loop of the producer over the whole duration of a run
RateSpec == InitRate /\ [][NextRate]_vars

TypeOK ==
    /\ queue \in Seq(1 .. MaxProduced)
    /\ mtx \in {NoOwner} \cup Workers
    /\ waiting \subseteq Workers
    /\ running \in BOOLEAN
    /\ cfg = RunConfig
    /\ pcProd \in {"loop", "push", "count", "notify", "done"}
    /\ \A w \in Workers :
          pcCons[w] \in {"pop", "prewait", "waiting", "woken", "index",
                         "sink", "done"}
    /\ pcMain \in {"sleep", "notify", "joinProducer", "joinConsumers",
                  "readSaved", "readBytes", "readDepth", "done"}

\* ----- properties -----------------------------------------------------------

\* what remains of the pushes 1 .. n when only the last c are kept
LastPushed(n, c) ==
    LET k == IF n < c THEN n ELSE c IN [i \in 1 .. k |-> n - k + i]

\* C1: once main() has stored running = false and broadcast, the run
\* completes: the producer and every consumer end, both joins return and
\* main() reaches the summary.
C1_RunCompletes == (pcMain = "joinProducer") ~> (pcMain = "done")

\* C2: once main() has stored running = false and broadcast, no push puts a
\* further image into the queue.
C2_NoPushAfterClose ==
    [][pcMain \notin {"sleep", "notify"} => nPushed' = nPushed]_vars

\* C3: at the end of a run in which push never dropped an image and every
\* image was written, the summary shows saved = generated and a queue depth
\* of 0.
C3_CleanRunSavesAll ==
    (pcMain = "done" /\ nEvicted = 0 /\ sinkFail = 0)
        => (summary.saved = summary.generated /\ summary.depth = 0)

\* C4: the queue never holds more than MAX_QUEUE_SIZE images.
C4_QueueBounded == Len(queue) <= MAX_QUEUE_SIZE

C4_Witness == Len(queue) = MAX_QUEUE_SIZE /\ nEvicted > 0

\* C5: drop-oldest: after n > MAX_QUEUE_SIZE pushes into the empty queue
\* with no pop in between, the queue holds exactly the last MAX_QUEUE_SIZE
\* images pushed, in the order they were pushed.
C5_DropOldest ==
    (nPopped = 0 /\ nPushed > MAX_QUEUE_SIZE)
        => queue = LastPushed(nPushed, MAX_QUEUE_SIZE)

C5_Witness ==
    /\ nPopped = 0
    /\ nPushed = MAX_QUEUE_SIZE + 1
    /\ Len(queue) = MAX_QUEUE_SIZE
    /\ Head(queue) = 2

\* C6: pop returns false only when running is false and the queue is empty;
\* whenever the queue is not empty when pop goes on, running or not, pop
\* removes the front image and returns it with true.
C6_PopFalseOnlyClosedEmpty ==
    [][\A w \in Workers :
          /\ (pcCons[w] # "done" /\ pcCons'[w] = "done")
                => (~running /\ queue = <<>>)
          /\ (pcCons[w] \in {"pop", "woken"} /\ pcCons'[w] # pcCons[w]
                /\ queue # <<>>)
                => /\ pcCons'[w] = "index"
                   /\ img'[w] = Head(queue)
                   /\ queue' = Tail(queue)]_vars

C6_Witness == ~running /\ nPopFail > 0 /\ drainPops > 0

\* C7: graceful drain: if the queue holds k images when running becomes
\* false, exactly k pops return true before any pop returns false.
C7_GracefulDrain == nPopFail > 0 => drainPops = closeDepth

\* C8: an image whose encode or file open failed is not counted as saved:
\* when all threads have ended, imagesSaved is the number of images that
\* were written.
C8_SavedCountsOnlyPersisted ==
    joined = NUM_CONSUMERS => imagesSaved = sinkOk

\* C9: imagesGenerated, imagesSaved and totalBytesWritten never decrease in
\* a step, and once the producer and all consumers have been joined
\* imagesSaved <= imagesGenerated.
C9_CountersMonotone ==
    /\ [][/\ imagesGenerated' >= imagesGenerated
          /\ imagesSaved' >= imagesSaved
          /\ totalBytesWritten' >= totalBytesWritten]_vars
    /\ [](joined = NUM_CONSUMERS => imagesSaved <= imagesGenerated)

C9_Witness ==
    /\ joined = NUM_CONSUMERS
    /\ imagesSaved > 0
    /\ imagesSaved < imagesGenerated
    /\ totalBytesWritten > 0

\* C10: a pop that found the queue empty and running true does not return
\* until a push has happened or running is false; a pop that finds the queue
\* empty and running false returns false without waiting.
C10_BlockingPop ==
    [][\A w \in Workers :
          /\ (pcCons[w] \in {"prewait", "waiting", "woken"}
                /\ pcCons'[w] \in {"index", "done"})
                => (waitHist[w] = "pushed" \/ ~running)
          /\ (pcCons[w] = "pop" /\ pcCons'[w] # "pop" /\ queue = <<>>)
                => pcCons'[w] = (IF running THEN "prewait" ELSE "done")]_vars

C10_Witness ==
    \E w1, w2 \in Workers :
        /\ pcCons[w1] = "done" /\ waitHist[w1] = "none"
        /\ pcCons[w2] = "index" /\ waitHist[w2] = "pushed"
\* the range of a sequence
Range(q) == {q[i] : i \in 1 .. Len(q)}

\* a sequence of numbers in strictly increasing order
Increasing(q) == \A i, j \in 1 .. Len(q) : i < j => q[i] < q[j]

\* main() is at or past the reads of the summary
Reporting == pcMain \in {"readSaved", "readBytes", "readDepth", "done"}

\* C11: at the end of a run in which every image popped was written, the
\* gap generated - (saved + pending depth) of the summary is exactly the
\* number of images push dropped, so saved + depth < generated if and only
\* if push dropped at least one image.
C11_GapIsEvictions ==
    (pcMain = "done" /\ sinkFail = 0)
        => /\ summary.generated - (summary.saved + summary.depth) = nEvicted
           /\ (summary.saved + summary.depth < summary.generated)
                 <=> (nEvicted > 0)

C11_Witness ==
    pcMain = "done" /\ sinkFail = 0 /\ nEvicted > 0 /\ summary.saved > 0

\* C12: idempotent close: the second of the two broadcasts (main's after the
\* producer's or the producer's after main's) leaves the queue and the
\* closed flag as the first close left them and only wakes waiting threads,
\* and every pop issued once running is false returns at once with the front
\* image or, on an empty queue, with false, whether one or both closes have
\* happened.
C12_IdempotentClose ==
    [][/\ ((pcProd = "notify" /\ pcProd' = "done"
              /\ pcMain \notin {"sleep", "notify"})
           \/ (pcMain = "notify" /\ pcMain' = "joinProducer"
              /\ pcProd = "done"))
          => /\ queue' = queue
             /\ running' = running
             /\ ~running'
             /\ <<imagesGenerated, imagesSaved, totalBytesWritten>>'
                   = <<imagesGenerated, imagesSaved, totalBytesWritten>>
             /\ \A w \in Workers :
                   pcCons'[w] = (IF pcCons[w] = "waiting" THEN "woken"
                                                          ELSE pcCons[w])
       /\ \A w \in Workers :
             (~running /\ pcCons[w] = "pop" /\ pcCons'[w] # "pop")
                => pcCons'[w] = (IF queue # <<>> THEN "index" ELSE "done")]_vars

C12_Witness ==
    /\ pcProd = "done"
    /\ pcMain \notin {"sleep", "notify"}
    /\ nPopFail > 0
    /\ drainPops > 0

\* C13: main() returns a non-zero exit code, with no thread started, the
\* counters at zero and the queue empty, exactly when the duration or the
\* rate is not positive or the consumer count is below 1 or above 7; every
\* other configuration starts the producer and its consumer threads.
C13_StartupValidation ==
    LET bad == \/ cfg.dur <= 0
               \/ cfg.fps <= 0
               \/ cfg.consumers < 1
               \/ cfg.consumers > 7
    IN  /\ pcMain = "rejected" =>
              /\ bad
              /\ exitCode \notin {0, NoExit}
              /\ pcProd = "unstarted"
              /\ pcCons = <<>>
              /\ queue = <<>>
              /\ imagesGenerated = 0 /\ imagesSaved = 0
              /\ totalBytesWritten = 0
        /\ pcMain = "sleep" =>
              /\ ~bad
              /\ exitCode = NoExit
              /\ pcProd = "loop"
              /\ DOMAIN pcCons = 1 .. cfg.consumers
        /\ pcMain \in {"validate", "rejected", "sleep"}

C13_Witness == pcMain = "rejected" /\ cfg.consumers = MaxConsumers + 1
                  /\ cfg.dur > 0 /\ cfg.fps > 0

\* C14: for every accepted rate fps and duration dur, a producer whose work
\* per image takes less than one interval, 1000 / fps in whole milliseconds,
\* and whose consumers keep up has generated, when it stops after dur
\* seconds, a number of images within 10% of fps * dur.
C14_RateControl ==
    pcProd = "notify" =>
        LET target == cfg.fps * cfg.dur
            diff == IF imagesGenerated >= target THEN imagesGenerated - target
                                                 ELSE target - imagesGenerated
        IN  10 * diff <= target

\* C15: main() joins the producer before any consumer: once main() is at
\* the joins of the consumers the producer thread has ended, and no push
\* happens after a consumer has been joined.
C15_JoinOrder ==
    /\ [](pcMain = "joinConsumers" \/ joined > 0 => pcProd = "done")
    /\ [][joined > 0 => nPushed' = nPushed]_vars

C15_Witness == joined > 0 /\ nPushed > closePushed /\ closePushed >= 0

\* C16: close wakes every blocked consumer: a consumer that is blocked in
\* the wait of pop when main() has stored running = false and issues its
\* broadcast eventually returns false from pop and ends.
C16_CloseWakesWaiters ==
    \A w \in Workers :
        (pcMain = "notify" /\ pcCons[w] = "waiting") ~> (pcCons[w] = "done")

C16_Witness ==
    \E w \in Workers :
        /\ pcMain = "joinProducer"
        /\ pcCons[w] = "done"
        /\ waitHist[w] = "waiting"
        /\ nPushed = closePushed

\* C17: FIFO: pop takes the oldest image in the queue, so the images
\* returned by the successful pops, in the order of the pops, are in push
\* order (a subsequence of the pushes), and when push has dropped nothing
\* they are exactly the first pushes, in order.
C17_Fifo ==
    /\ [][\A w \in Workers :
             (pcCons[w] # "index" /\ pcCons'[w] = "index")
                => /\ img'[w] = Head(queue)
                   /\ \A i \in 1 .. Len(queue) : img'[w] <= queue[i]]_vars
    /\ [](Increasing(popSeq) /\ Range(popSeq) \subseteq 1 .. nPushed)
    /\ [](nEvicted = 0 => popSeq = [i \in 1 .. Len(popSeq) |-> i])

C17_Witness == nEvicted > 0 /\ Len(popSeq) = 2 /\ popSeq[1] = 2

\* C18: the summary is read only after shutdown: while main() reads the
\* counters and the queue depth the producer and every consumer have ended,
\* nothing changes a counter or the queue from the first read on, the
\* summary shows the final values, and main() moves through sleep, close,
\* joins, reads and return in that order.
C18_SummaryAfterShutdown ==
    /\ [](Reporting => /\ pcProd = "done"
                       /\ \A w \in Workers : pcCons[w] = "done")
    /\ [][(Reporting \/ (pcMain = "joinConsumers" /\ joined = NUM_CONSUMERS))
             => <<imagesGenerated, imagesSaved, totalBytesWritten, queue>>'
                   = <<imagesGenerated, imagesSaved, totalBytesWritten, queue>>]_vars
    /\ [](pcMain = "done"
             => summary = [generated |-> imagesGenerated,
                           saved |-> imagesSaved,
                           bytes |-> totalBytesWritten,
                           depth |-> Len(queue)])
    /\ [][pcMain' # pcMain
             => <<pcMain, pcMain'>> \in
                   {<<"sleep", "notify">>, <<"notify", "joinProducer">>,
                    <<"joinProducer", "joinConsumers">>,
                    <<"joinConsumers", "readSaved">>,
                    <<"readSaved", "readBytes">>, <<"readBytes", "readDepth">>,
                    <<"readDepth", "done">>}]_vars

C18_Witness ==
    pcMain = "done" /\ summary.generated > 0 /\ summary.saved > 0
        /\ summary.bytes > 0

\* C19: the indices the consumers get from imagesSaved are pairwise
\* distinct and, once all threads have been joined, are exactly
\* 0 .. imagesSaved - 1; no image is returned by two pops, and no two
\* consumers hold the same index or the same image.
C19_DistinctIndices ==
    /\ Cardinality(Range(idxSeq)) = Len(idxSeq)
    /\ Cardinality(Range(popSeq)) = Len(popSeq)
    /\ joined = NUM_CONSUMERS => Range(idxSeq) = 0 .. imagesSaved - 1
    /\ \A w1, w2 \in Workers :
          w1 # w2 => /\ index[w1] >= 0 => index[w1] # index[w2]
                     /\ img[w1] # NoImg => img[w1] # img[w2]

C19_Witness ==
    /\ joined = NUM_CONSUMERS
    /\ Len(idxSeq) >= 2
    /\ sinkOk >= 2

\* a consumer is in pop or about to call it
Idle(w) == pcCons[w] \in {"pop", "prewait", "waiting", "woken"}

\* C20: no wake-up of push is lost: the queue is never non-empty while every
\* consumer is blocked in the wait of pop, and whenever the queue is not
\* empty and some consumer is idle (in pop or about to call it), a pop
\* eventually returns an image.
C20_NoLostPushWakeup ==
    /\ [](~(queue # <<>> /\ \A w \in Workers : pcCons[w] = "waiting"))
    /\ \A n \in 0 .. MaxProduced :
          (queue # <<>> /\ nPopped = n /\ \E w \in Workers : Idle(w))
              ~> (nPopped > n)

C20_Witness ==
    /\ running
    /\ nPopped > 0
    /\ \E w1, w2 \in Workers :
          /\ pcCons[w1] = "index" /\ waitHist[w1] = "pushed"
          /\ pcCons[w2] = "waiting"
====
